---- MODULE Spec2Model ----
(***************************************************************************)
(* Euclidean rhythm generator (lab-audio): the pattern generator bjorklund *)
(* and the rendering pipeline of generateRhythm / main, which synthesises  *)
(* one drum burst and mixes it into a sample buffer at every hit step.     *)
(*                                                                         *)
(* Go indices are 0-based and are kept 0-based here; a TLA+ sequence s     *)
(* holds Go element k at s[k + 1].                                         *)
(***************************************************************************)
EXTENDS Integers, Sequences, FiniteSets, TLC

VARIABLES
    steps,       \* argument of bjorklund / config.Steps
    pulses,      \* argument of bjorklund / config.Pulses
    bpm,         \* config.BPM
    sampleRate,  \* sampleRate
    lengthMs,    \* drumLengthMs
    pc,          \* position in the program
    err,         \* Go runtime panic raised, "none" while there is none
    groups,      \* bjorklund: groups
    i,           \* bjorklund: index of the inner for loop
    count,       \* bjorklund: merges of the current round
    round,       \* number of rounds of the outer for loop started so far
    merged,      \* merges performed in each started round (history)
    pattern,     \* result of bjorklund
    beatMs,      \* beatMs
    drum,        \* result of synthDrum
    out,         \* sample buffer
    k,           \* mixing loop: pattern index (i of "for i, v := range pattern")
    j,           \* mixing loop: index into drum
    start,       \* mixing loop: start of the current hit
    writes       \* <<pattern index, j, index written, sample added>> of every write (history)

vars == <<steps, pulses, bpm, sampleRate, lengthMs, pc, err, groups, i, count,
          round, merged, pattern, beatMs, drum, out, k, j, start, writes>>

bjVars  == <<groups, i, count, round, merged, pattern>>
mixVars == <<beatMs, drum, out, k, j, start, writes>>
inVars  == <<steps, pulses, bpm, sampleRate, lengthMs>>

----------------------------------------------------------------------------
(* Bounds of the model *)

MaxSteps == 16          \* largest steps given to bjorklund alone
MaxRenderSteps == 4     \* largest steps given to the rendering pipeline
MaxSampleRate == 3      \* largest sample rate given to the rendering pipeline

Bpms == {0 - 60001, 0 - 60, 0, 60, 120, 180}
LengthsMs == {80, 1000, 2000}

----------------------------------------------------------------------------
(* Go integer arithmetic *)

Abs(a) == IF a < 0 THEN 0 - a ELSE a

\* Go's a / b on ints, b # 0: the quotient is truncated toward zero.
GoDiv(a, b) ==
    IF (a < 0) = (b < 0) THEN Abs(a) \div Abs(b) ELSE 0 - (Abs(a) \div Abs(b))

\* make([]int, n): n zeros
Zeros(n) == [x \in 1..n |-> 0]

\* the slice filled by "for i := range out { out[i] = 1 }"
Ones(n) == [x \in 1..n |-> 1]

----------------------------------------------------------------------------
(* bjorklund *)

\* "if pulses == 0"
IsAllRests(s, p) == p = 0

\* IsAllHits with the pulses == steps shortcut left out
IsAllHitsNever(s, p) == FALSE

\* "if pulses == steps"
IsAllHits(s, p) == p = s

\* InitGroups with the rests placed first
InitGroupsRestsFirst(s, p) ==
    [x \in 1..s |-> IF x - 1 < s - p THEN <<0>> ELSE <<1>>]

\* groups[i] = []int{1} for i < pulses, []int{0} otherwise
InitGroups(s, p) == [x \in 1..s |-> IF x - 1 < p THEN <<1>> ELSE <<0>>]

\* Mergeable without the check that the current group is one symbol long
MergeableAnyLength(g, idx) ==
    /\ Len(g[Len(g)]) = 1
    /\ g[idx + 1][1] # g[Len(g)][1]

\* the condition of the if in the inner loop, for Go index idx
Mergeable(g, idx) ==
    /\ Len(g[idx + 1]) = 1
    /\ Len(g[Len(g)]) = 1
    /\ g[idx + 1][1] # g[Len(g)][1]

\* MergeLast that drops the last group without appending its symbol
MergeLastDropsSymbol(g, idx) == [x \in 1..(Len(g) - 1) |-> g[x]]

\* MergeLast that appends the symbol but keeps the last group in the list
MergeLastKeepsLast(g, idx) ==
    [x \in 1..Len(g) |->
        IF x = idx + 1 THEN Append(g[x], g[Len(g)][1]) ELSE g[x]]

\* groups[i] = append(groups[i], groups[len(groups)-1][0]);
\* groups = groups[:len(groups)-1]
MergeLast(g, idx) ==
    [x \in 1..(Len(g) - 1) |->
        IF x = idx + 1 THEN Append(g[x], g[Len(g)][1]) ELSE g[x]]

\* pattern = append(pattern, g...) for every g of groups, in order
RECURSIVE Flatten(_)
Flatten(g) == IF g = <<>> THEN <<>> ELSE Head(g) \o Flatten(Tail(g))

Panic(msg) ==
    /\ pc' = "panic"
    /\ err' = msg

\* pulses == 0: return make([]int, steps)
BjAllRests ==
    /\ pc = "bj_entry"
    /\ IsAllRests(steps, pulses)
    /\ IF steps < 0
         THEN Panic("makeslice: len out of range") /\ UNCHANGED pattern
         ELSE pattern' = Zeros(steps) /\ pc' = "bj_ret" /\ UNCHANGED err
    /\ UNCHANGED <<groups, i, count, round, merged>>
    /\ UNCHANGED <<inVars, mixVars>>

\* pulses == steps: return steps ones
BjAllHits ==
    /\ pc = "bj_entry"
    /\ ~IsAllRests(steps, pulses)
    /\ IsAllHits(steps, pulses)
    /\ IF steps < 0
         THEN Panic("makeslice: len out of range") /\ UNCHANGED pattern
         ELSE pattern' = Ones(steps) /\ pc' = "bj_ret" /\ UNCHANGED err
    /\ UNCHANGED <<groups, i, count, round, merged>>
    /\ UNCHANGED <<inVars, mixVars>>

\* groups := make([][]int, steps) and its initialisation
BjInitGroups ==
    /\ pc = "bj_entry"
    /\ ~IsAllRests(steps, pulses)
    /\ ~IsAllHits(steps, pulses)
    /\ IF steps < 0
         THEN Panic("makeslice: len out of range") /\ UNCHANGED groups
         ELSE groups' = InitGroups(steps, pulses) /\ pc' = "bj_round"
              /\ UNCHANGED err
    /\ UNCHANGED <<i, count, round, merged, pattern>>
    /\ UNCHANGED <<inVars, mixVars>>

\* ScanContinues that stops one group early
ScanContinuesShort(idx, g) == idx < Len(g) - 2

\* condition of the inner loop: i < len(groups)-1
ScanContinues(idx, g) == idx < Len(g) - 1

\* top of the outer "for {": count := 0; i := 0
BjRound ==
    /\ pc = "bj_round"
    /\ count' = 0
    /\ i' = 0
    /\ round' = round + 1
    /\ pc' = "bj_scan"
    /\ UNCHANGED <<groups, merged, pattern, err>>
    /\ UNCHANGED <<inVars, mixVars>>

\* one iteration of the inner loop whose if is taken
BjMerge ==
    /\ pc = "bj_scan"
    /\ ScanContinues(i, groups)
    /\ Mergeable(groups, i)
    /\ groups' = MergeLast(groups, i)
    /\ count' = count + 1
    /\ i' = i + 1
    /\ UNCHANGED <<round, merged, pattern, pc, err>>
    /\ UNCHANGED <<inVars, mixVars>>

\* one iteration of the inner loop whose if is not taken
BjSkip ==
    /\ pc = "bj_scan"
    /\ ScanContinues(i, groups)
    /\ ~Mergeable(groups, i)
    /\ i' = i + 1
    /\ UNCHANGED <<groups, count, round, merged, pattern, pc, err>>
    /\ UNCHANGED <<inVars, mixVars>>

\* the inner loop is over: "if count == 0 { break }"
BjRoundEnd ==
    /\ pc = "bj_scan"
    /\ ~ScanContinues(i, groups)
    /\ merged' = Append(merged, count)
    /\ pc' = IF count = 0 THEN "bj_flatten" ELSE "bj_round"
    /\ UNCHANGED <<groups, i, count, round, pattern, err>>
    /\ UNCHANGED <<inVars, mixVars>>

\* flatten groups into pattern and return it
BjFlatten ==
    /\ pc = "bj_flatten"
    /\ pattern' = Flatten(groups)
    /\ pc' = "bj_ret"
    /\ UNCHANGED <<groups, i, count, round, merged, err>>
    /\ UNCHANGED <<inVars, mixVars>>

Bjorklund ==
    \/ BjAllRests
    \/ BjAllHits
    \/ BjInitGroups
    \/ BjRound
    \/ BjMerge
    \/ BjSkip
    \/ BjRoundEnd
    \/ BjFlatten

----------------------------------------------------------------------------
(* synthDrum and the rendering pipeline of generateRhythm / main *)

\* samples := sampleRate * lengthMs / 1000
DrumSamples(sr, ms) == GoDiv(sr * ms, 1000)

\* largest magnitude of int(amp * 32767 * sin(phase)) with amp <= 0.5
DrumPeak == 32767 \div 2

\* The bursts synthDrum may return for n samples.  The sample values come
\* from float64 exp and sin, which are not computed here: every sample is
\* either extreme of its range, except sample 0, which is int(0.5*32767*sin(0)) = 0.
DrumBursts(n) ==
    {d \in [1..n -> {0 - DrumPeak, 0, DrumPeak}] :
        \A x \in 1..n : (d[x] = 0) <=> (x = 1)}

\* TotalSamples that truncates the samples of one beat before multiplying
TotalSamplesPerBeatFirst(sr, st, bm) == GoDiv(sr * bm, 1000) * st

\* TotalSamples that rounds to the nearest sample instead of truncating
TotalSamplesRounded(sr, st, bm) == GoDiv(sr * st * bm + 500, 1000)

\* totalSamples := sampleRate * steps * beatMs / 1000
TotalSamples(sr, st, bm) == GoDiv(sr * st * bm, 1000)

\* StartOf that counts the steps from 1
StartOfOneBased(idx, sr, bm) == GoDiv((idx + 1) * sr * bm, 1000)

\* StartOf that multiplies the step by a truncated samples-per-beat value
StartOfPerBeat(idx, sr, bm) == idx * GoDiv(sr * bm, 1000)

\* start := i * sampleRate * beatMs / 1000
StartOf(idx, sr, bm) == GoDiv(idx * sr * bm, 1000)

\* beatMs := 60000 / config.BPM
GrBeat ==
    /\ pc = "gr_entry"
    /\ IF bpm = 0
         THEN Panic("integer divide by zero") /\ UNCHANGED beatMs
         ELSE beatMs' = GoDiv(60000, bpm) /\ pc' = "bj_entry" /\ UNCHANGED err
    /\ UNCHANGED <<drum, out, k, j, start, writes>>
    /\ UNCHANGED <<inVars, bjVars>>

\* drum := synthDrum(sampleRate, drumLengthMs, config.DrumFreq)
GrSynth ==
    /\ pc = "bj_ret"
    /\ IF DrumSamples(sampleRate, lengthMs) < 0
         THEN Panic("makeslice: len out of range") /\ UNCHANGED drum
         ELSE /\ drum' \in DrumBursts(DrumSamples(sampleRate, lengthMs))
              /\ pc' = "gr_alloc"
              /\ UNCHANGED err
    /\ UNCHANGED <<beatMs, out, k, j, start, writes>>
    /\ UNCHANGED <<inVars, bjVars>>

\* out := make([]int, totalSamples)
GrAlloc ==
    /\ pc = "gr_alloc"
    /\ IF TotalSamples(sampleRate, steps, beatMs) < 0
         THEN Panic("makeslice: len out of range") /\ UNCHANGED <<out, k>>
         ELSE /\ out' = Zeros(TotalSamples(sampleRate, steps, beatMs))
              /\ k' = 0
              /\ pc' = "mix"
              /\ UNCHANGED err
    /\ UNCHANGED <<beatMs, drum, j, start, writes>>
    /\ UNCHANGED <<inVars, bjVars>>

\* "for i, v := range pattern" at a step with v != 1
MixRest ==
    /\ pc = "mix"
    /\ k < Len(pattern)
    /\ pattern[k + 1] # 1
    /\ k' = k + 1
    /\ UNCHANGED <<beatMs, drum, out, j, start, writes, pc, err>>
    /\ UNCHANGED <<inVars, bjVars>>

\* ... at a step with v == 1: start is computed, j := 0
MixHit ==
    /\ pc = "mix"
    /\ k < Len(pattern)
    /\ pattern[k + 1] = 1
    /\ start' = StartOf(k, sampleRate, beatMs)
    /\ j' = 0
    /\ pc' = "mix_burst"
    /\ UNCHANGED <<beatMs, drum, out, k, writes, err>>
    /\ UNCHANGED <<inVars, bjVars>>

\* AddSample that saturates at the 16-bit sample range
AddSampleClamped(a, b) ==
    IF a + b > 32767 THEN 32767
    ELSE IF a + b < 0 - 32768 THEN 0 - 32768 ELSE a + b

\* out[start+j] += drum[j], on Go ints
AddSample(a, b) == a + b

\* BurstContinues without the check against the end of the buffer
BurstContinuesUnclipped(jj, st, d, o) == jj < Len(d)

\* condition of the inner loop: j < len(drum) && start+j < len(out)
BurstContinues(jj, st, d, o) == jj < Len(d) /\ st + jj < Len(o)

\* one iteration of "for j := 0; j < len(drum) && start+j < len(out); j++"
MixAdd ==
    /\ pc = "mix_burst"
    /\ BurstContinues(j, start, drum, out)
    /\ IF start + j < 0
         THEN Panic("index out of range") /\ UNCHANGED <<out, j, writes>>
         ELSE /\ out' = [out EXCEPT ![start + j + 1] = AddSample(@, drum[j + 1])]
              /\ j' = j + 1
              /\ writes' = writes \cup {<<k, j, start + j, drum[j + 1]>>}
              /\ UNCHANGED <<pc, err>>
    /\ UNCHANGED <<beatMs, drum, k, start>>
    /\ UNCHANGED <<inVars, bjVars>>

\* the condition of the inner loop is false: next pattern index
MixBurstEnd ==
    /\ pc = "mix_burst"
    /\ ~BurstContinues(j, start, drum, out)
    /\ k' = k + 1
    /\ pc' = "mix"
    /\ UNCHANGED <<beatMs, drum, out, j, start, writes, err>>
    /\ UNCHANGED <<inVars, bjVars>>

\* the range loop is over: out is handed to the WAV encoder
MixDone ==
    /\ pc = "mix"
    /\ ~(k < Len(pattern))
    /\ pc' = "gr_done"
    /\ UNCHANGED <<mixVars, err>>
    /\ UNCHANGED <<inVars, bjVars>>

Render ==
    \/ GrBeat
    \/ GrSynth
    \/ GrAlloc
    \/ MixRest
    \/ MixHit
    \/ MixAdd
    \/ MixBurstEnd
    \/ MixDone

----------------------------------------------------------------------------
(* Specifications *)

InitLocals ==
    /\ err = "none"
    /\ groups = <<>>
    /\ i = 0
    /\ count = 0
    /\ round = 0
    /\ merged = <<>>
    /\ pattern = <<>>
    /\ beatMs = 0
    /\ drum = <<>>
    /\ out = <<>>
    /\ k = 0
    /\ j = 0
    /\ start = 0
    /\ writes = {}

\* generateRhythm(config), with the sample rate and the drum length as inputs
Init ==
    /\ steps \in (0 - 1)..MaxRenderSteps
    /\ pulses \in 0..(MaxRenderSteps + 1)
    /\ bpm \in Bpms
    /\ sampleRate \in (0 - 1)..MaxSampleRate
    /\ lengthMs \in LengthsMs
    /\ pc = "gr_entry"
    /\ InitLocals

Next == Bjorklund \/ Render

Spec == Init /\ [][Next]_vars

\* bjorklund(steps, pulses) called on its own (demo.go)
InitPattern ==
    /\ steps \in (0 - 1)..MaxSteps
    /\ pulses \in 0..(MaxSteps + 1)
    /\ bpm = 120
    /\ sampleRate = 0
    /\ lengthMs = 80
    /\ pc = "bj_entry"
    /\ InitLocals

NextPattern == Bjorklund

SpecPattern == InitPattern /\ [][NextPattern]_vars

\* bjorklund is straight-line sequential code: a step that is enabled is taken
SpecPatternFair == SpecPattern /\ WF_vars(NextPattern)

----------------------------------------------------------------------------
(* Properties of bjorklund, checked under SpecPattern *)

ValidSpec == steps >= 1 /\ pulses >= 0 /\ pulses <= steps

\* Go indices of the hits of the returned pattern
HitSteps == {x \in 0..(Len(pattern) - 1) : pattern[x + 1] = 1}

\* C1: for steps >= 1 and 0 <= pulses <= steps the returned pattern has
\* exactly steps entries, each 0 or 1, of which exactly pulses are 1.
C1_PulseCount ==
    (pc = "bj_ret" /\ ValidSpec) =>
        /\ Len(pattern) = steps
        /\ \A x \in 1..Len(pattern) : pattern[x] \in {0, 1}
        /\ Cardinality(HitSteps) = pulses

C1_Witness ==
    /\ pc = "bj_ret"
    /\ steps = 7 /\ pulses = 3
    /\ round = 2
    /\ Cardinality(HitSteps) = 3

\* C2: bjorklund(8, 3) returns [1,0,0,1,0,0,1,0].
C2_Tresillo ==
    (pc = "bj_ret" /\ steps = 8 /\ pulses = 3) =>
        pattern = <<1, 0, 0, 1, 0, 0, 1, 0>>

\* distance from the hit at Go index x to the next hit, reading cyclically
NextHitDistance(x) ==
    CHOOSE d \in 1..Len(pattern) :
        /\ pattern[((x + d) % Len(pattern)) + 1] = 1
        /\ \A e \in 1..(d - 1) : pattern[((x + e) % Len(pattern)) + 1] # 1

\* C3: for steps >= 2 and 0 < pulses < steps every cyclic distance between a
\* hit and the next hit is floor(steps/pulses) or ceil(steps/pulses).
C3_EvenlySpread ==
    (pc = "bj_ret" /\ steps >= 2 /\ 0 < pulses /\ pulses < steps) =>
        \A x \in HitSteps :
            NextHitDistance(x) \in
                {steps \div pulses, (steps + pulses - 1) \div pulses}

\* C4: bjorklund(16, 6) returns [1,0,1,0,1,0,1,0,1,0,1,0,0,0,0,0].
C4_SixteenSix ==
    (pc = "bj_ret" /\ steps = 16 /\ pulses = 6) =>
        pattern = <<1, 0, 1, 0, 1, 0, 1, 0, 1, 0, 1, 0, 0, 0, 0, 0>>

C4_Witness ==
    /\ pc = "bj_ret"
    /\ steps = 16 /\ pulses = 6
    /\ merged = <<6, 0>>

\* C5: for n >= 1, bjorklund(n, 0) returns n rests and bjorklund(n, n) returns
\* n hits, and neither call ever enters the grouping/merging loop.
C5_EdgeCases ==
    (steps >= 1 /\ pulses \in {0, steps}) =>
        /\ pc \notin {"bj_round", "bj_scan", "bj_flatten"}
        /\ round = 0 /\ groups = <<>>
        /\ pc = "bj_ret" =>
              /\ Len(pattern) = steps
              /\ \A x \in 1..steps : pattern[x] = (IF pulses = 0 THEN 0 ELSE 1)

C5_Witness ==
    /\ pc = "bj_ret"
    /\ steps = 3 /\ pulses = 3
    /\ pattern = <<1, 1, 1>>
    /\ round = 0

\* C6: called with pulses > steps or steps <= 0, pattern generation never
\* returns a pattern (it fails with InvalidSpec instead).
C6_InvalidSpecNoPattern ==
    (pulses > steps \/ steps <= 0) => pc # "bj_ret"

----------------------------------------------------------------------------
(* Properties of the rendering pipeline, checked under Spec *)

Allocated == pc \in {"mix", "mix_burst", "gr_done"}

\* C7: for sampleRate > 0, bpm > 0 and steps >= 1 the buffer has length
\* (sampleRate * steps * (60000 div bpm)) div 1000: the beat duration is
\* truncated first, the division by 1000 is applied once, after multiplying.
C7_BufferLength ==
    (Allocated /\ sampleRate > 0 /\ bpm > 0 /\ steps >= 1) =>
        Len(out) = (sampleRate * steps * (60000 \div bpm)) \div 1000

C7_Witness ==
    /\ pc = "gr_done"
    /\ sampleRate = 3 /\ bpm = 120 /\ steps = 3
    /\ Len(out) = 4
    /\ ((sampleRate * (60000 \div bpm)) \div 1000) * steps = 3

C9_InvalidParamsNoBuffer ==
    /\ (bpm <= 0 \/ sampleRate <= 0) => ~Allocated
    /\ (bpm > 0 /\ sampleRate > 0 /\ ValidSpec) => pc # "panic"

\* C11 (as claimed): for sampleRate > 0, bpm > 0 and steps >= 1 the buffer
\* has length samplesPerBeat * steps, where samplesPerBeat =
\* (sampleRate * beatMs) div 1000 is truncated before it is multiplied.
C11_PerBeatLength ==
    (Allocated /\ sampleRate > 0 /\ bpm > 0 /\ steps >= 1) =>
        Len(out) = ((sampleRate * beatMs) \div 1000) * steps

\* C11 (amended): the product sampleRate * beatMs is multiplied by steps
\* before the one truncating division, so the buffer has samplesPerBeat * steps
\* entries plus the whole samples that the truncated remainder
\* (sampleRate * beatMs) mod 1000 adds up to over steps beats.
C11_LengthCarriesRemainder ==
    (Allocated /\ sampleRate > 0 /\ bpm > 0 /\ steps >= 1) =>
        /\ beatMs = 60000 \div bpm
        /\ Len(out) = ((sampleRate * beatMs) \div 1000) * steps
                      + ((((sampleRate * beatMs) % 1000) * steps) \div 1000)

C11_Witness ==
    /\ Allocated
    /\ sampleRate = 3 /\ bpm = 120 /\ steps = 4
    /\ Len(out) = 6
    /\ ((sampleRate * beatMs) \div 1000) * steps = 4

\* C12 (as claimed): the burst of a hit at pattern index k is mixed in from
\* start = k * samplesPerBeat, samplesPerBeat = (sampleRate * beatMs) div 1000.
C12_StartPerBeat ==
    (pc = "mix_burst" /\ sampleRate > 0 /\ bpm > 0) =>
        start = k * ((sampleRate * beatMs) \div 1000)

\* C12 (amended): the burst of a hit at pattern index k is mixed in from
\* start = (k * sampleRate * beatMs) div 1000, which is k * samplesPerBeat
\* plus the whole samples the truncated remainder adds up to over k beats.
C12_StartCarriesRemainder ==
    (pc = "mix_burst" /\ sampleRate > 0 /\ bpm > 0) =>
        /\ pattern[k + 1] = 1
        /\ start = k * ((sampleRate * beatMs) \div 1000)
                   + ((((sampleRate * beatMs) % 1000) * k) \div 1000)

C12_Witness ==
    /\ pc = "mix_burst"
    /\ sampleRate = 3 /\ bpm = 120
    /\ k = 2
    /\ start = 3
    /\ k * ((sampleRate * beatMs) \div 1000) = 2

\* sum, over the hit steps h of H whose burst covers buffer index t, of the
\* burst sample that lands on t
RECURSIVE MixSum(_, _)
MixSum(H, t) ==
    IF H = {} THEN 0
    ELSE LET h == CHOOSE x \in H : TRUE
             s == (h * sampleRate * beatMs) \div 1000
         IN  (IF s <= t /\ t < s + Len(drum) THEN drum[t - s + 1] ELSE 0)
             + MixSum(H \ {h}, t)

\* C13: after mixing every out[t] is the plain integer sum of the burst
\* samples that land on t, over all hit steps; overlapping bursts are added
\* without clamping, and an index no burst covers stays 0.
C13_PlainSum ==
    (pc = "gr_done" /\ sampleRate > 0 /\ bpm > 0) =>
        \A t \in 0..(Len(out) - 1) : out[t + 1] = MixSum(HitSteps, t)

\* three bursts overlap and their sum leaves the 16-bit range
C13_Witness ==
    /\ pc = "gr_done"
    /\ sampleRate > 0 /\ bpm > 0
    /\ \E t \in 1..Len(out) : out[t] > 32767

\* start of the burst of pattern index h, as the mixing loop computes it
StartOfStep(h) == (h * sampleRate * beatMs) \div 1000

\* number of burst samples that fit between the start of step h and the end
\* of the buffer: max(0, min(len(drum), len(out) - start))
PrefixLen(h) ==
    LET room == Len(out) - StartOfStep(h)
        m == IF Len(drum) < room THEN Len(drum) ELSE room
    IN  IF m < 0 THEN 0 ELSE m

\* hit steps whose burst the mixing loop has finished
MixedSteps == {h \in HitSteps : h < k \/ pc = "gr_done"}

\* C14: every write of the mixing loop lands inside the buffer, at
\* start + j, and adds drum[j]; for every hit step the samples added are
\* exactly the prefix drum[0 .. m-1], m = max(0, min(len(drum), len(out) -
\* start)): only the tail of a burst is ever dropped.
C14_PrefixOnly ==
    (Allocated /\ sampleRate > 0 /\ bpm > 0) =>
        /\ \A w \in writes :
              /\ 0 <= w[3] /\ w[3] < Len(out)
              /\ w[1] \in HitSteps
              /\ w[3] = StartOfStep(w[1]) + w[2]
              /\ w[4] = drum[w[2] + 1]
        /\ \A h \in MixedSteps :
              {w[2] : w \in {v \in writes : v[1] = h}} = 0..(PrefixLen(h) - 1)

\* one burst was mixed in whole and the tail of a later one was dropped
C14_Witness ==
    /\ pc = "gr_done"
    /\ sampleRate > 0 /\ bpm > 0
    /\ \E h \in HitSteps : PrefixLen(h) = Len(drum) /\ Len(drum) >= 3
    /\ \E h \in HitSteps : 0 < PrefixLen(h) /\ PrefixLen(h) < Len(drum)

----------------------------------------------------------------------------
(* Properties of the merge loop of bjorklund, checked under SpecPattern *)

\* number of symbols held by the groups before group x of g
RECURSIVE SymbolsBefore(_, _)
SymbolsBefore(g, x) ==
    IF x <= 1 THEN 0 ELSE SymbolsBefore(g, x - 1) + Len(g[x - 1])

\* C15: when the merge loop has exited, no group before the last one pairs
\* with the last group (both one symbol long, symbols different), and the
\* returned pattern holds the symbols of the groups in order.
C15_FixedPoint ==
    (pc = "bj_flatten" \/ (pc = "bj_ret" /\ round > 0)) =>
        /\ \A x \in 1..(Len(groups) - 1) :
              ~(/\ Len(groups[x]) = 1
                /\ Len(groups[Len(groups)]) = 1
                /\ groups[x][1] # groups[Len(groups)][1])
        /\ pc = "bj_ret" =>
              /\ Len(pattern) = SymbolsBefore(groups, Len(groups) + 1)
              /\ \A x \in 1..Len(groups) : \A p \in 1..Len(groups[x]) :
                    pattern[SymbolsBefore(groups, x) + p] = groups[x][p]

C15_Witness ==
    /\ pc = "bj_ret"
    /\ steps = 5 /\ pulses = 2
    /\ groups = << <<1, 0>>, <<1, 0>>, <<0>> >>
    /\ pattern = <<1, 0, 1, 0, 0>>

\* merges performed in the rounds that are over
RECURSIVE MergesDone(_)
MergesDone(m) == IF m = <<>> THEN 0 ELSE Head(m) + MergesDone(Tail(m))

\* at most two rounds are started, every merge shortens the group list by
\* one group, and only the first round merges
RoundsBounded ==
    ValidSpec =>
        /\ round <= 2
        /\ Len(merged) <= round
        /\ \A r \in 2..Len(merged) : merged[r] = 0
        /\ round = 2 => count = 0
        /\ pc \in {"bj_round", "bj_scan", "bj_flatten"} =>
              /\ Len(groups) = steps - MergesDone(merged)
                               - (IF pc = "bj_scan" THEN count ELSE 0)
              /\ i <= steps
        /\ pc = "bj_flatten" => merged[Len(merged)] = 0

\* C16: for steps >= 1 and 0 <= pulses <= steps bjorklund terminates: a round
\* that merges shortens the group list, all merges happen in the first
\* round, and the zero-merge round that exits the loop is reached after at
\* most two rounds.
C16_Terminates ==
    /\ []RoundsBounded
    /\ ValidSpec ~> (pc = "bj_ret")

C16_Witness ==
    /\ pc = "bj_ret"
    /\ steps = 12 /\ pulses = 5
    /\ round = 2
    /\ merged = <<5, 0>>
    /\ Len(groups) = 7

\* n copies of the symbol pair (1, 0)
Pairs(n) == [x \in 1..(2 * n) |-> IF x % 2 = 1 THEN 1 ELSE 0]

\* n copies of symbol b
Copies(n, b) == [x \in 1..n |-> b]

====
